---- MODULE Spec2Model ----
(***************************************************************************)
(* The authentication state container of the state-management examples:    *)
(* the reducer-based AuthProvider (authReducer, initialState, login,       *)
(* logout) with the User and AuthAction types of AuthTypes.ts, run next to *)
(* the useState AuthProvider and the zustand useAuthStore, and ProfileIcon.*)
(***************************************************************************)
EXTENDS Integers, Sequences, FiniteSets

\* ------------------------------------------------------------------ bounds

\* How many of the most recent dispatched actions the model remembers.
MaxLog == 3

\* ------------------------------------------------------------------- types

\* The value null of `user: User | null`.
Null == [null |-> TRUE]

\* interface User { id: string; name: string; email: string }
\* Every string field may be empty: the type puts no constraint on it.
User ==
  [id : {"", "1", "2"}, name : {"", "Guest"}, email : {"guest@example.com"}]

\* interface AuthState { isLoggedIn: boolean; user: User | null }
AuthState == [isLoggedIn : BOOLEAN, user : User \cup {Null}]

\* Action tags outside the AuthAction union; the README names them as
\* actions the reducer does not handle yet.
OtherKinds == {"UPDATE_PROFILE", "CHANGE_PASSWORD"}

LoginAction(userData) == [type |-> "LOGIN", payload |-> userData]

LogoutAction == [type |-> "LOGOUT"]

OtherAction(k) == [type |-> k]

\* const initialState: AuthState = { isLoggedIn: false, user: null }
initialState == [isLoggedIn |-> FALSE, user |-> Null]

\* ----------------------------------------------------------------- reducer

\* Mutant: LOGIN sets the flag and forgets the payload.
authReducer_flagOnly(s, a) ==
  CASE a.type = "LOGIN" -> [s EXCEPT !.isLoggedIn = TRUE]
    [] a.type = "LOGOUT" -> [s EXCEPT !.isLoggedIn = FALSE, !.user = Null]
    [] OTHER -> s

\* Mutant: LOGIN while already logged in keeps the identity it has.
authReducer_keepUser(s, a) ==
  CASE a.type = "LOGIN" ->
         [s EXCEPT !.isLoggedIn = TRUE,
                   !.user = IF s.user = Null THEN a.payload ELSE s.user]
    [] a.type = "LOGOUT" -> [s EXCEPT !.isLoggedIn = FALSE, !.user = Null]
    [] OTHER -> s

\* Mutant: LOGOUT lowers the flag and leaves the identity in place.
authReducer_keepIdentity(s, a) ==
  CASE a.type = "LOGIN" -> [s EXCEPT !.isLoggedIn = TRUE, !.user = a.payload]
    [] a.type = "LOGOUT" -> [s EXCEPT !.isLoggedIn = FALSE]
    [] OTHER -> s

\* Mutant: LOGOUT drops the identity and leaves the flag raised.
authReducer_keepFlag(s, a) ==
  CASE a.type = "LOGIN" -> [s EXCEPT !.isLoggedIn = TRUE, !.user = a.payload]
    [] a.type = "LOGOUT" -> [s EXCEPT !.user = Null]
    [] OTHER -> s

\* Mutant: LOGIN refuses a payload with an empty id or name.
authReducer_validating(s, a) ==
  CASE a.type = "LOGIN" ->
         IF a.payload.id = "" \/ a.payload.name = "" THEN s
         ELSE [s EXCEPT !.isLoggedIn = TRUE, !.user = a.payload]
    [] a.type = "LOGOUT" -> [s EXCEPT !.isLoggedIn = FALSE, !.user = Null]
    [] OTHER -> s

\* Mutant: the default case resets the state.
authReducer_defaultResets(s, a) ==
  CASE a.type = "LOGIN" -> [s EXCEPT !.isLoggedIn = TRUE, !.user = a.payload]
    [] a.type = "LOGOUT" -> [s EXCEPT !.isLoggedIn = FALSE, !.user = Null]
    [] OTHER -> initialState

\* Mutant: a LOGIN dispatched to an identified session closes it.
authReducer_loginToggles(s, a) ==
  CASE a.type = "LOGIN" ->
         IF s.isLoggedIn THEN [s EXCEPT !.isLoggedIn = FALSE, !.user = Null]
         ELSE [s EXCEPT !.isLoggedIn = TRUE, !.user = a.payload]
    [] a.type = "LOGOUT" -> [s EXCEPT !.isLoggedIn = FALSE, !.user = Null]
    [] OTHER -> s

\* const authReducer = (state, action) => switch (action.type) { ... }
\* `...state` copies the two fields of AuthState, which the cases overwrite.
authReducer(s, a) ==
  CASE a.type = "LOGIN" -> [s EXCEPT !.isLoggedIn = TRUE, !.user = a.payload]
    [] a.type = "LOGOUT" -> [s EXCEPT !.isLoggedIn = FALSE, !.user = Null]
    [] OTHER -> s

\* What a dispatch raises to its caller: login, logout and authReducer hold
\* no throw statement and no validation, so no request is ever rejected.
raised(s, a) == "none"

\* ---------------------------------------------------- the other containers

\* Mutant: the store starts with a session already open.
storeInitial_open == [isLoggedIn |-> TRUE, user |-> Null]

\* create<AuthState>((set) => ({ isLoggedIn: false, user: null, ... }))
storeInitial == [isLoggedIn |-> FALSE, user |-> Null]

\* set(partial): "update multiple state properties at once"; the properties
\* partial names are overwritten, the others are kept.
storeSet(s, partial) ==
  [k \in DOMAIN s |-> IF k \in DOMAIN partial THEN partial[k] ELSE s[k]]

\* createContext<AuthContextType | null>(null): what useContext returns
\* with no provider above the consumer.
NoProvider == Null

\* The message of the Error ProfileIcon throws.
MustBeWithinProvider == "ProfileIcon must be used within an AuthProvider"

\* Mutant: ProfileIcon without its guard; with no context it falls through
\* to the logged-out view.
ProfileIcon_unguarded(authContext) ==
  IF authContext # Null /\ authContext.isLoggedIn
  THEN [error |-> "", welcome |-> IF authContext.user = Null THEN "" ELSE authContext.user.name,
        button |-> "Logout"]
  ELSE [error |-> "", welcome |-> "", button |-> "Login"]

\* Mutant: ProfileIcon offering the Login button in its logged-in view too.
ProfileIcon_loginAlways(authContext) ==
  IF authContext = Null
  THEN [error |-> MustBeWithinProvider, welcome |-> "", button |-> ""]
  ELSE IF authContext.isLoggedIn
       THEN [error |-> "",
             welcome |-> IF authContext.user = Null THEN "" ELSE authContext.user.name,
             button |-> "Login"]
       ELSE [error |-> "", welcome |-> "", button |-> "Login"]

\* ProfileIcon: throws with no context, else shows the welcome line with the
\* Logout button when logged in and the Login button when not.
ProfileIcon(authContext) ==
  IF authContext = Null
  THEN [error |-> MustBeWithinProvider, welcome |-> "", button |-> ""]
  ELSE IF authContext.isLoggedIn
       THEN [error |-> "",
             welcome |-> IF authContext.user = Null THEN "" ELSE authContext.user.name,
             button |-> "Logout"]
       ELSE [error |-> "", welcome |-> "", button |-> "Login"]

\* Nothing has been rendered yet.
NotRendered == [error |-> "", welcome |-> "", button |-> ""]

\* ------------------------------------------------------- checkout schema

\* A string is the sequence of its characters; undefined is a value no
\* string equals.
Undefined == <<"undefined">>

Rep(c, n) == [i \in 1..n |-> c]

S_card == <<"c", "a", "r", "d">>

S_paypal == <<"p", "a", "y", "p", "a", "l">>

\* z.string(): the value is a string.
IsString(v) == v # Undefined

\* z.string().min(n): a string of at least n characters.
MinLen(v, n) == IsString(v) /\ Len(v) >= n

\* z.string().email(), on the sample addresses: something, "@", something,
\* ".", something.
IsEmail(v) ==
  /\ IsString(v)
  /\ \E i, j \in 1..Len(v) :
       /\ 1 < i /\ i + 1 < j /\ j < Len(v)
       /\ v[i] = "@" /\ v[j] = "."

\* The character class [0-9].
Class0to9 == {"0", "1", "2", "3", "4", "5", "6", "7", "8", "9"}

\* The character class \d of a JavaScript regular expression.
ClassDigit == {"0", "1", "2", "3", "4", "5", "6", "7", "8", "9"}

\* ^C{5}$ for a character class C: exactly five characters, each in C.
MatchesFive(v, class) ==
  /\ Len(v) = 5
  /\ \A i \in 1..Len(v) : v[i] \in class

\* types/checkout.ts: zipCode: z.string().regex(/^[0-9]{5}$/)
zipCode_types(v) == IsString(v) /\ MatchesFive(v, Class0to9)

\* checkout/src/App.tsx: zipCode: z.string().regex(/^\d{5}$/)
zipCode_App(v) == IsString(v) /\ MatchesFive(v, ClassDigit)

\* forms/README.md: zipCode: z.string().min(5)
zipCode_README(v) == MinLen(v, 5)

\* The three copies of checkoutSchema; they differ in the zipCode rule.
Variants == {"types", "App", "README"}

zipCode(variant, v) ==
  CASE variant = "types" -> zipCode_types(v)
    [] variant = "App" -> zipCode_App(v)
    [] variant = "README" -> zipCode_README(v)

\* JavaScript truthiness of a `string | undefined`.
Truthy(v) == v # Undefined /\ v # <<>>

RefineMessage == "All card details are required for card payment"

ZipMessage == "Zip code must be 5 digits"

\* The issue a failed check adds.
Issue(ok, path, message) ==
  IF ok THEN {} ELSE {[path |-> path, message |-> message]}

\* Mutant: the refinement forgets the cvv.
cardDetailsRefine_noCvv(data) ==
  IF data.paymentMethod = S_card
  THEN Truthy(data.cardHolderName) /\ Truthy(data.cardNumber) /\ Truthy(data.expiryDate)
  ELSE TRUE

\* .refine((data) => { if (data.paymentMethod === "card") return
\*   data.cardHolderName && data.cardNumber && data.expiryDate && data.cvv;
\*   return true; })
cardDetailsRefine(data) ==
  IF data.paymentMethod = S_card
  THEN /\ Truthy(data.cardHolderName)
       /\ Truthy(data.cardNumber)
       /\ Truthy(data.expiryDate)
       /\ Truthy(data.cvv)
  ELSE TRUE

\* z.object({...}): the issues of the twelve fields.
FieldIssues(variant, data) ==
  Issue(MinLen(data.fullName, 1), "fullName", "Full name is required")
    \cup Issue(IsEmail(data.email), "email", "Invalid email address")
    \cup Issue(MinLen(data.phone, 10), "phone", "Phone number must be at least 10 digits")
    \cup Issue(MinLen(data.streetAddress, 1), "streetAddress", "Street address is required")
    \cup Issue(MinLen(data.city, 1), "city", "City is required")
    \cup Issue(zipCode(variant, data.zipCode), "zipCode", ZipMessage)
    \cup Issue(MinLen(data.country, 1), "country", "Country is required")
    \cup Issue(MinLen(data.paymentMethod, 1), "paymentMethod", "Please select a payment method")

\* The refinement's issue, reported at path ["cardHolderName"].
RefineIssues(data) == Issue(cardDetailsRefine(data), "cardHolderName", RefineMessage)

\* checkoutSchema applied to data: the issues found; none means accepted.
checkoutSchema(variant, data) == FieldIssues(variant, data) \cup RefineIssues(data)

\* ----------------------------------------------------------- checkout form

FieldNames ==
  {"fullName", "email", "phone", "streetAddress", "city", "zipCode", "country",
   "paymentMethod", "cardHolderName", "cardNumber", "expiryDate", "cvv"}

\* useForm() with no defaultValues; the Controller gives paymentMethod "".
DefaultValues ==
  [fullName |-> Undefined, email |-> Undefined, phone |-> Undefined,
   streetAddress |-> Undefined, city |-> Undefined, zipCode |-> Undefined,
   country |-> Undefined, paymentMethod |-> <<>>, cardHolderName |-> Undefined,
   cardNumber |-> Undefined, expiryDate |-> Undefined, cvv |-> Undefined]

\* What a user may have typed into the form: the contents the form model
\* is driven with.
FormSamples ==
  [fullName : {<<>>, <<"A">>},
   email : {<<"a", "@", "b", ".", "c">>},
   phone : {Rep("1", 10)},
   streetAddress : {<<"x">>},
   city : {<<"x">>},
   zipCode : {Rep("1", 5), Rep("1", 6)},
   country : {<<"x">>},
   paymentMethod : {<<>>, S_card, S_paypal},
   cardHolderName : {Undefined, <<>>, <<"x">>},
   cardNumber : {<<"x">>},
   expiryDate : {<<"x">>},
   cvv : {<<"x">>}]

\* The data the schema alone is applied to: every zip code shape and every
\* combination of absent, empty and filled card fields.
SchemaInputs ==
  [fullName : {<<"A">>},
   email : {<<"a", "@", "b", ".", "c">>},
   phone : {Rep("1", 9), Rep("1", 10), Rep("a", 10)},
   streetAddress : {<<"x">>},
   city : {<<"x">>},
   zipCode : {<<>>, Rep("1", 4), <<"0", "1", "2", "3", "9">>, Rep("1", 6),
              Rep("a", 5), <<"1", "2", "3", "4", "a">>},
   country : {<<"x">>},
   paymentMethod : {<<>>, S_card, S_paypal},
   cardHolderName : {Undefined, <<>>, <<"x">>},
   cardNumber : {Undefined, <<>>, <<"x">>},
   expiryDate : {Undefined, <<>>, <<"x">>},
   cvv : {Undefined, <<>>, <<"x">>}]

\* Mutant: handleSubmit that skips the validation result.
handleSubmit_always(issues, data) == {data}

\* handleSubmit(onSubmit): "passes the form data to your function only if
\* the validation succeeds". The set of arguments onSubmit is called with.
handleSubmit(issues, data) == IF issues = {} THEN {data} ELSE {}

\* ---------------------------------------------------- memoized context value

\* The number of distinct object identities kept apart; a new object takes
\* the next one, so two consecutive values never share an identity.
IdSpace == 3

\* What useMemo keeps between renders: the dependency list it last computed
\* for and the value object it computed.
MemoCell(deps, value) == [deps |-> deps, value |-> value]

\* Mutant: a dependency list that leaves out user.
authContextDeps_flagOnly(s) == <<s.isLoggedIn>>

\* The dependency list of the provider's useMemo: [isLoggedIn, user]
\* (useState provider), [state.isLoggedIn, state.user] (reducer provider).
authContextDeps(s) == <<s.isLoggedIn, s.user>>

\* useMemo(() => ({ isLoggedIn, user, login, logout }), deps): "the value
\* only changes when isLoggedIn or user actually change". The value object
\* is kept while the dependencies are the ones it was computed for, and a
\* new object is made from the current state otherwise.
useMemo(cell, s) ==
  IF authContextDeps(s) = cell.deps
    THEN cell
    ELSE MemoCell(authContextDeps(s),
                  [isLoggedIn |-> s.isLoggedIn, user |-> s.user,
                   id |-> (cell.value.id + 1) % IdSpace])

\* The first render of a provider: nothing memoized yet, the value object is
\* made from the initial state.
firstRender(s) ==
  MemoCell(authContextDeps(s), [isLoggedIn |-> s.isLoggedIn, user |-> s.user, id |-> 0])

\* The two providers that memoize their context value.
Providers == {"useState", "useReducer"}

\* ------------------------------------------------------------- api client

\* An optional value is the set of what is there: {} for null or undefined.
\* localStorage.getItem returns null for a key that is not stored.
NoToken == {}

\* The authToken values the application may store.
Tokens == {"", "abc", "xyz"}

\* JavaScript truthiness of the `string | null` read from localStorage.
TokenTruthy(token) == token # NoToken /\ token # {""}

\* axios.create({ ..., headers: { 'Content-Type': 'application/json' } })
defaultConfig ==
  [headers |-> [ContentType |-> "application/json", Authorization |-> {}]]

\* Mutant: a request interceptor that sends the token without its scheme.
requestInterceptor_rawToken(config, token) ==
  IF TokenTruthy(token)
    THEN [config EXCEPT !.headers.Authorization = token]
    ELSE config

\* apiClient.interceptors.request.use((config) => { ... return config; }),
\* token being what localStorage.getItem('authToken') returned.
requestInterceptor(config, token) ==
  IF TokenTruthy(token)
    THEN [config EXCEPT !.headers.Authorization = {"Bearer " \o t : t \in token}]
    ELSE config

\* The status codes a server answers with.
HttpStatuses == {200, 201, 400, 401, 403, 404, 500}

\* A status code in the 2xx range.
Is2xx(status) == status >= 200 /\ status < 300

\* The response bodies: JSON texts and one that is not JSON.
NotJson == "<html>"

Bodies == {"[]", "[{id:1}]", "{id:123}", NotJson}

\* What happens to a request on the network: a response arrives with a
\* status and a body, no response arrives, or the request is never made.
Outcomes ==
  {[failure |-> "none", status |-> s, body |-> b] : s \in HttpStatuses, b \in Bodies}
    \cup {[failure |-> f, status |-> 0, body |-> ""] : f \in {"network", "setup"}}

\* The error object axios rejects with: error.response exists if the server
\* answered outside the 2xx range, error.request if the request was made.
AxiosError(outcome) ==
  [response |-> IF outcome.failure = "none" THEN {[status |-> outcome.status]} ELSE {},
   request |-> outcome.failure # "setup",
   message |-> CASE outcome.failure = "none" -> "Request failed"
                 [] outcome.failure = "network" -> "Network Error"
                 [] OTHER -> "timeout exceeded"]

Fulfilled(value) == [settled |-> "fulfilled", value |-> value]

Rejected(reason) == [settled |-> "rejected", value |-> reason]

\* axios: "throws an error for any response outside the 2xx status code
\* range"; the response's data property holds the body.
axiosRequest(outcome) ==
  IF outcome.failure = "none" /\ Is2xx(outcome.status)
    THEN Fulfilled([data |-> outcome.body])
    ELSE Rejected(AxiosError(outcome))

\* fetch: "does not throw an error for a 4xx or 5xx status code. You must
\* manually check response.ok"; it rejects when no response arrives.
fetch(outcome) ==
  IF outcome.failure = "none"
    THEN Fulfilled([ok |-> Is2xx(outcome.status), body |-> outcome.body])
    ELSE Rejected([message |-> "Failed to fetch"])

\* What the handler writes with console.error.
consoleMessage(error) ==
  IF error.response # {}
    THEN LET status == (CHOOSE r \in error.response : TRUE).status
         IN CASE status = 401 -> "Unauthorized access. Redirecting to login..."
              [] status = 403 -> "Forbidden: You do not have permission to access this resource."
              [] status = 404 -> "Resource not found."
              [] status = 500 -> "Server error. Please try again later."
              [] OTHER -> "An unexpected error occurred"
    ELSE IF error.request
      THEN "Network Error: Please check your internet connection."
      ELSE "Request setup error"

\* The result of an interceptor: localStorage's authToken and
\* window.location.href as it leaves them, what it logged, and the promise
\* it returns.
Handled(token, href, console, promise) ==
  [authToken |-> token, href |-> href, console |-> console, promise |-> promise]

\* Mutant: an error handler that also clears the token on 403.
responseRejected_clearsOnForbidden(error, token, href) ==
  LET status == IF error.response # {}
                  THEN (CHOOSE r \in error.response : TRUE).status ELSE 0
  IN Handled(IF status \in {401, 403} THEN NoToken ELSE token,
             IF status = 401 THEN "/login" ELSE href,
             consoleMessage(error), Rejected(error))

\* Mutant: an error handler that redirects on 401 but keeps the token.
responseRejected_keepsToken(error, token, href) ==
  LET status == IF error.response # {}
                  THEN (CHOOSE r \in error.response : TRUE).status ELSE 0
  IN Handled(token, IF status = 401 THEN "/login" ELSE href,
             consoleMessage(error), Rejected(error))

\* apiClient.interceptors.response.use(..., (error) => { ... }): only the
\* 401 case touches localStorage and window.location; every path ends in
\* return Promise.reject(error).
responseRejected(error, token, href) ==
  LET status == IF error.response # {}
                  THEN (CHOOSE r \in error.response : TRUE).status ELSE 0
  IN Handled(IF status = 401 THEN NoToken ELSE token,
             IF status = 401 THEN "/login" ELSE href,
             consoleMessage(error), Rejected(error))

\* apiClient.interceptors.response.use((response) => response, ...)
responseFulfilled(response, token, href) ==
  Handled(token, href, "", Fulfilled(response))

\* The promise apiClient.get returns once the network outcome is known: the
\* request's promise passed through the response interceptor.
apiClientGet(outcome, token, href) ==
  LET promise == axiosRequest(outcome)
  IN IF promise.settled = "fulfilled"
       THEN responseFulfilled(promise.value, token, href)
       ELSE responseRejected(promise.value, token, href)

\* ------------------------------------------------------ fetching components

\* The components that fetch on mount: DataFetcher on apiClient, DataFetcher
\* on axios, UserProvider on fetch.
Fetchers == {"DataFetcher_apiClient", "DataFetcher_axios", "UserProvider"}

\* JSON texts stand for the values they parse to.
JsonNull == "null"

JsonEmptyArray == "[]"

CouldNotRetrieve == "Could not retrieve posts. Please try again."

FailedToFetchUser == "Failed to fetch user data"

\* useState([]) or useState(null), useState(true), useState(null)
initialView(kind) ==
  [data |-> IF kind = "UserProvider" THEN JsonNull ELSE JsonEmptyArray,
   loading |-> TRUE,
   error |-> JsonNull]

\* Mutant: fetchPosts without its finally block.
DataFetcher_apiClient_noFinally(view, promise) ==
  IF promise.settled = "fulfilled"
    THEN [view EXCEPT !.data = promise.value.data, !.loading = FALSE]
    ELSE [view EXCEPT !.error = CouldNotRetrieve]

\* axios-adv.md: try { setPosts(response.data) } catch { setError("Could
\* not retrieve posts. Please try again.") } finally { setLoading(false) }
DataFetcher_apiClient(view, promise) ==
  IF promise.settled = "fulfilled"
    THEN [view EXCEPT !.data = promise.value.data, !.loading = FALSE]
    ELSE [view EXCEPT !.error = CouldNotRetrieve, !.loading = FALSE]

\* axios.md: try { setPosts(response.data); setLoading(false) }
\* catch (err) { setError(err.message); setLoading(false) }
DataFetcher_axios(view, promise) ==
  IF promise.settled = "fulfilled"
    THEN [view EXCEPT !.data = promise.value.data, !.loading = FALSE]
    ELSE [view EXCEPT !.error = promise.value.message, !.loading = FALSE]

\* context-api.md: try { if (!response.ok) throw new Error(...);
\* setUser(await response.json()) } catch (err) { setError(err.message) }
\* finally { setLoading(false) }
UserProvider(view, promise) ==
  CASE promise.settled = "rejected" ->
         [view EXCEPT !.error = promise.value.message, !.loading = FALSE]
    [] promise.settled = "fulfilled" /\ ~promise.value.ok ->
         [view EXCEPT !.error = FailedToFetchUser, !.loading = FALSE]
    [] promise.settled = "fulfilled" /\ promise.value.ok
         /\ promise.value.body = NotJson ->
         [view EXCEPT !.error = "Unexpected token", !.loading = FALSE]
    [] OTHER ->
         [view EXCEPT !.data = promise.value.body, !.loading = FALSE]

\* Whether the component's fetch succeeded: its try block ran to the end.
Succeeded(kind, outcome) ==
  /\ outcome.failure = "none"
  /\ Is2xx(outcome.status)
  /\ kind = "UserProvider" => outcome.body # NotJson

\* ---------------------------------------------------------------- menu item

\* price?: number: absent, or an amount (in cents).
Prices == {{}, {0}, {999}, {1500}}

\* priceRange?: number[]: absent, or a list of amounts, possibly empty.
PriceRanges ==
  {{}, {<<>>}, {<<1500>>}, {<<500, 1500>>}, {<<1500, 2500, 5000, 10000>>}}

\* The values of type ProductItem (the fields MenuItem's price reads).
ProductItems ==
  [price : Prices, priceRange : PriceRanges,
   category : {"giftcard", "discount", "specialty"}]

\* Number.prototype.toFixed(2): the integer part and the two decimals.
toFixed2(cents) == <<cents \div 100, (cents % 100) \div 10, cents % 10>>

\* Nothing displayed yet.
NotDisplayed == [error |-> "", prefix |-> "", amount |-> <<>>]

\* Reading toFixed of undefined.
TypeError == [error |-> "TypeError", prefix |-> "", amount |-> <<>>]

Displayed(prefix, amount) == [error |-> "", prefix |-> prefix, amount |-> amount]

\* const displayPrice = item.priceRange
\*   ? `from $${item.priceRange[0].toFixed(2)}` : `$${item.price!.toFixed(2)}`;
\* An array, empty or not, is truthy; element 0 of an empty array and an
\* absent price are undefined.
displayPrice(item) ==
  IF item.priceRange # {}
    THEN LET range == CHOOSE r \in item.priceRange : TRUE
         IN IF Len(range) = 0 THEN TypeError
            ELSE Displayed("from $", toFixed2(range[1]))
    ELSE IF item.price = {} THEN TypeError
         ELSE LET price == CHOOSE p \in item.price : TRUE
              IN Displayed("$", toFixed2(price))

\* ------------------------------------------------------------------- state

VARIABLES
  state,          \* the AuthState held by useReducer(authReducer, initialState)
  prev,           \* the AuthState the last dispatch was applied to
  log,            \* the last MaxLog actions dispatched, oldest first
  thrown,         \* what the last dispatch raised to its caller
  isLoggedIn,     \* useState<boolean>(false) of the useState AuthProvider
  user,           \* useState<User | null>(null) of the useState AuthProvider
  store,          \* the state of the zustand useAuthStore
  rendered,       \* what the last render of ProfileIcon produced
  renderedInside, \* whether that render was below an AuthProvider
  tornDown,       \* the AuthState discarded by the last restart, Null if none
  variant,        \* which copy of checkoutSchema the form's resolver holds
  values,         \* the checkout form's field values
  errors,         \* formState.errors: the issues of the validated fields
  submitted,      \* the data the last form event called onSubmit with, if any
  formEvent,      \* the last form event: "none", "edit", "blur" or "submit"
  memo,           \* per provider, what its useMemo holds
  lastRender,     \* per provider, the state and the value of its last render
  prevRender,     \* per provider, the same for the render before that
  authToken,      \* localStorage's authToken item, NoToken if not stored
  href,           \* window.location.href
  fetcher,        \* the mounted fetching component and its fetch
  sent,           \* the last request sent through apiClient, if any
  handled,        \* the last error the response interceptor handled, if any
  since401,       \* a 401 was handled and no authToken was stored since
  item,           \* the ProductItem given to MenuItem
  shown           \* what MenuItem computed as its displayPrice

reducerVars == <<state, prev, log, thrown>>

authVars ==
  <<state, prev, log, thrown, isLoggedIn, user, store, rendered,
    renderedInside, tornDown>>

formVars == <<variant, values, errors, submitted, formEvent>>

memoVars == <<memo, lastRender, prevRender>>

serverVars == <<authToken, href, fetcher, sent, handled, since401>>

menuVars == <<item, shown>>

vars == <<authVars, formVars, memoVars, serverVars, menuVars>>

\* Appends to the log, keeping the MaxLog most recent actions.
Remember(l, a) ==
  IF Len(l) < MaxLog THEN Append(l, a) ELSE Append(Tail(l), a)

\* The providers mount and the store module loads: every container holds
\* its constructor's value.
AuthInit ==
  /\ state = initialState
  /\ prev = initialState
  /\ log = <<>>
  /\ thrown = "none"
  /\ isLoggedIn = FALSE
  /\ user = Null
  /\ store = storeInitial
  /\ rendered = NotRendered
  /\ renderedInside = FALSE
  /\ tornDown = Null

\* useForm({ resolver: zodResolver(checkoutSchema), mode: "onBlur" })
FormInit(variants) ==
  /\ variant \in variants
  /\ values = DefaultValues
  /\ errors = {}
  /\ submitted = {}
  /\ formEvent = "none"

\* The state either provider is rendered with.
cells(p) ==
  IF p = "useState" THEN [isLoggedIn |-> isLoggedIn, user |-> user] ELSE state

\* Mounting a provider renders it once, with the initial state.
MemoInit ==
  /\ memo = [p \in Providers |-> firstRender(initialState)]
  /\ lastRender =
       [p \in Providers |->
          [state |-> initialState, value |-> firstRender(initialState).value]]
  /\ prevRender = lastRender

\* The page has loaded with one of `tokens` in localStorage; no component
\* that fetches is mounted and apiClient has sent nothing.
ServerInit(tokens) ==
  /\ authToken \in tokens
  /\ href = "/"
  /\ fetcher = [kind |-> "DataFetcher_apiClient", phase |-> "unmounted",
                view |-> initialView("DataFetcher_apiClient"), outcome |-> {}]
  /\ sent = {}
  /\ handled = {}
  /\ since401 = FALSE

\* A gift card of the sample data: a price range and no price.
SampleItem ==
  [price |-> {}, priceRange |-> {<<1500, 2500, 5000, 10000>>},
   category |-> "giftcard"]

\* A MenuItem is about to be rendered with one of `items`.
MenuInit(items) ==
  /\ item \in items
  /\ shown = NotDisplayed

\* The parts of the repository a specification does not exercise.
RestInit == MemoInit /\ ServerInit({NoToken}) /\ MenuInit({SampleItem})

\* The auth examples and the checkout application (types/checkout.ts).
Init == AuthInit /\ FormInit({"types"}) /\ RestInit

\* The checkout form built on any of the three copies of the schema.
FormSpecInit == AuthInit /\ FormInit(Variants) /\ RestInit

\* dispatch(action): the reducer's result replaces the state.
Dispatch(a) ==
  /\ state' = authReducer(state, a)
  /\ prev' = state
  /\ log' = Remember(log, a)
  /\ thrown' = raised(state, a)

\* const login = (userData: User) => dispatch({ type: "LOGIN", payload: userData })
login(userData) == Dispatch(LoginAction(userData))

\* const logout = () => dispatch({ type: "LOGOUT" })
logout == Dispatch(LogoutAction)

\* An action whose tag no case of the switch names reaches `default`.
dispatchOther(k) == Dispatch(OtherAction(k))

\* Mutant: login of the useState provider without its second setter call.
useState_login_noSetUser(userData) ==
  /\ isLoggedIn' = TRUE
  /\ user' = user

\* useState provider: login = setIsLoggedIn(true); setUser(userData)
useState_login(userData) ==
  /\ isLoggedIn' = TRUE
  /\ user' = userData

\* useState provider: logout = setIsLoggedIn(false); setUser(null)
useState_logout ==
  /\ isLoggedIn' = FALSE
  /\ user' = Null

\* useAuthStore.login = set({ isLoggedIn: true, user: userData })
store_login(userData) ==
  store' = storeSet(store, [isLoggedIn |-> TRUE, user |-> userData])

\* useAuthStore.logout = set({ isLoggedIn: false, user: null })
store_logout ==
  store' = storeSet(store, [isLoggedIn |-> FALSE, user |-> Null])

\* The value AuthProvider hands to AuthContext.Provider (its two data fields).
authContextValue == [isLoggedIn |-> state.isLoggedIn, user |-> state.user]

\* The same login(userData) call made on each of the three containers.
Login ==
  \E userData \in User :
    /\ login(userData)
    /\ useState_login(userData)
    /\ store_login(userData)
    /\ UNCHANGED <<rendered, renderedInside, tornDown, formVars, memoVars, serverVars, menuVars>>

\* The same logout() call made on each of the three containers.
Logout ==
  /\ logout
  /\ useState_logout
  /\ store_logout
  /\ UNCHANGED <<rendered, renderedInside, tornDown, formVars, memoVars, serverVars, menuVars>>

\* Only the reducer takes tagged actions; the other two containers expose
\* login and logout alone.
DispatchOther ==
  /\ \E k \in OtherKinds : dispatchOther(k)
  /\ UNCHANGED <<isLoggedIn, user, store, rendered, renderedInside, tornDown, formVars, memoVars, serverVars, menuVars>>

\* A ProfileIcon is rendered, below an AuthProvider or with none above it.
RenderProfileIcon ==
  /\ \E inside \in BOOLEAN :
       /\ rendered' = ProfileIcon(IF inside THEN authContextValue ELSE NoProvider)
       /\ renderedInside' = inside
  /\ UNCHANGED <<reducerVars, isLoggedIn, user, store, tornDown, formVars, memoVars, serverVars, menuVars>>

\* The application is torn down and started again: the constructors run anew.
Restart ==
  /\ tornDown' = state
  /\ state' = initialState
  /\ prev' = initialState
  /\ log' = <<>>
  /\ thrown' = "none"
  /\ isLoggedIn' = FALSE
  /\ user' = Null
  /\ store' = storeInitial
  /\ rendered' = NotRendered
  /\ renderedInside' = FALSE
  /\ memo' = [p \in Providers |-> firstRender(initialState)]
  /\ lastRender' =
       [p \in Providers |->
          [state |-> initialState, value |-> firstRender(initialState).value]]
  /\ prevRender' = lastRender'
  /\ UNCHANGED <<formVars, serverVars, menuVars>>

Next == Login \/ Logout \/ DispatchOther \/ RenderProfileIcon \/ Restart

Spec == Init /\ [][Next]_vars

\* The user edits one or more fields (onChange): only the values change,
\* validation waits for a blur or a submit.
Fill ==
  /\ \E v \in FormSamples : values' = v
  /\ formEvent' = "edit"
  /\ submitted' = {}
  /\ UNCHANGED <<variant, errors, authVars, memoVars, serverVars, menuVars>>

\* mode: "onBlur": leaving a field validates the form and replaces that
\* field's error.
Blur ==
  /\ \E field \in FieldNames :
       errors' = {e \in errors : e.path # field}
                   \cup {e \in checkoutSchema(variant, values) : e.path = field}
  /\ formEvent' = "blur"
  /\ submitted' = {}
  /\ UNCHANGED <<variant, values, authVars, memoVars, serverVars, menuVars>>

\* <form onSubmit={handleSubmit(onSubmit)}>: a submit attempt validates all
\* fields; onSubmit (console.log, alert) runs with the data if none failed.
Submit ==
  /\ errors' = checkoutSchema(variant, values)
  /\ submitted' = handleSubmit(checkoutSchema(variant, values), values)
  /\ formEvent' = "submit"
  /\ UNCHANGED <<variant, values, authVars, memoVars, serverVars, menuVars>>

FormNext == Fill \/ Blur \/ Submit

FormSpec == FormSpecInit /\ [][FormNext]_vars

\* The schema on its own: any data, parsed once.
SchemaInit ==
  /\ AuthInit
  /\ RestInit
  /\ variant \in Variants
  /\ values \in SchemaInputs
  /\ errors = {}
  /\ submitted = {}
  /\ formEvent = "none"

SchemaNext == Submit

SchemaSpec == SchemaInit /\ [][SchemaNext]_vars

\* --------------------------------------------------------- provider renders

\* login(userData) on both providers, seen from the providers alone.
ProviderLogin ==
  /\ \E userData \in User :
       /\ state' = authReducer(state, LoginAction(userData))
       /\ useState_login(userData)
  /\ UNCHANGED <<prev, log, thrown, store, rendered, renderedInside, tornDown,
                 formVars, memoVars, serverVars, menuVars>>

\* logout() on both providers.
ProviderLogout ==
  /\ state' = authReducer(state, LogoutAction)
  /\ useState_logout
  /\ UNCHANGED <<prev, log, thrown, store, rendered, renderedInside, tornDown,
                 formVars, memoVars, serverVars, menuVars>>

\* A provider renders (its state changed, or its parent rendered): useMemo
\* runs with the current state and its result is the value handed to
\* AuthContext.Provider.
RenderAuthProvider ==
  /\ \E p \in Providers :
       /\ memo' = [memo EXCEPT ![p] = useMemo(memo[p], cells(p))]
       /\ lastRender' = [lastRender EXCEPT
                           ![p] = [state |-> cells(p), value |-> memo'[p].value]]
       /\ prevRender' = [prevRender EXCEPT ![p] = lastRender[p]]
  /\ UNCHANGED <<authVars, formVars, serverVars, menuVars>>

ProviderNext == ProviderLogin \/ ProviderLogout \/ RenderAuthProvider

ProviderSpec == Init /\ [][ProviderNext]_vars

\* ------------------------------------------------------ ProfileIcon buttons

\* The user the Login button logs in:
\* login({ id: "1", name: "Guest", email: "guest@example.com" })
GuestUser == [id |-> "1", name |-> "Guest", email |-> "guest@example.com"]

\* What the ProfileIcon of the zustand application shows: the same two views,
\* read from useAuthStore.
StoreProfileIcon == ProfileIcon([isLoggedIn |-> store.isLoggedIn, user |-> store.user])

\* A click on the Login button of the context application's ProfileIcon.
ClickLogin ==
  /\ ProfileIcon(authContextValue).button = "Login"
  /\ login(GuestUser)
  /\ UNCHANGED <<isLoggedIn, user, store, rendered, renderedInside, tornDown,
                 formVars, memoVars, serverVars, menuVars>>

\* A click on its Logout button.
ClickLogout ==
  /\ ProfileIcon(authContextValue).button = "Logout"
  /\ logout
  /\ UNCHANGED <<isLoggedIn, user, store, rendered, renderedInside, tornDown,
                 formVars, memoVars, serverVars, menuVars>>

\* A click on the Login button of the zustand application's ProfileIcon.
ClickStoreLogin ==
  /\ StoreProfileIcon.button = "Login"
  /\ store_login(GuestUser)
  /\ UNCHANGED <<reducerVars, isLoggedIn, user, rendered, renderedInside,
                 tornDown, formVars, memoVars, serverVars, menuVars>>

\* A click on its Logout button.
ClickStoreLogout ==
  /\ StoreProfileIcon.button = "Logout"
  /\ store_logout
  /\ UNCHANGED <<reducerVars, isLoggedIn, user, rendered, renderedInside,
                 tornDown, formVars, memoVars, serverVars, menuVars>>

\* The two applications driven through their ProfileIcon alone.
UiNext ==
  \/ ClickLogin
  \/ ClickLogout
  \/ ClickStoreLogin
  \/ ClickStoreLogout
  \/ RenderProfileIcon
  \/ Restart

UiSpec == Init /\ [][UiNext]_vars

\* ---------------------------------------------------- api client at work

\* The application stores an authToken (localStorage.setItem).
StoreToken ==
  /\ \E t \in Tokens : authToken' = {t}
  /\ since401' = FALSE
  /\ UNCHANGED <<href, fetcher, sent, handled, authVars, formVars, memoVars, menuVars>>

\* A fetching component mounts: its state is initialised and its effect
\* starts the fetch. A request through apiClient passes the request
\* interceptor, which reads localStorage then.
Mount ==
  /\ fetcher.phase # "pending"
  /\ \E kind \in Fetchers :
       /\ fetcher' = [kind |-> kind, phase |-> "pending",
                      view |-> initialView(kind), outcome |-> {}]
       /\ sent' = IF kind = "DataFetcher_apiClient"
                    THEN {[config |-> requestInterceptor(defaultConfig, authToken),
                           storage |-> authToken,
                           after401 |-> since401]}
                    ELSE sent
  /\ UNCHANGED <<authToken, href, handled, since401, authVars, formVars, memoVars, menuVars>>

\* The fetch component's state once its fetch has settled with `outcome`.
Settled(view, outcome) ==
  [fetcher EXCEPT !.phase = "settled", !.view = view, !.outcome = {outcome}]

\* await apiClient.get('/posts') settles: the response interceptor runs,
\* then the component's try / catch / finally.
SettleApiClient ==
  /\ fetcher.phase = "pending"
  /\ fetcher.kind = "DataFetcher_apiClient"
  /\ \E outcome \in Outcomes :
       LET result == apiClientGet(outcome, authToken, href)
           failed == axiosRequest(outcome).settled = "rejected"
       IN /\ authToken' = result.authToken
          /\ href' = result.href
          /\ handled' = IF failed
                          THEN {[error |-> AxiosError(outcome),
                                 tokenBefore |-> authToken,
                                 hrefBefore |-> href,
                                 result |-> result]}
                          ELSE handled
          /\ since401' = (since401 \/ (failed /\ outcome.status = 401))
          /\ fetcher' = Settled(DataFetcher_apiClient(fetcher.view, result.promise), outcome)
  /\ UNCHANGED <<sent, authVars, formVars, memoVars, menuVars>>

\* await axios.get(...) settles in the DataFetcher that uses axios directly.
SettleAxios ==
  /\ fetcher.phase = "pending"
  /\ fetcher.kind = "DataFetcher_axios"
  /\ \E outcome \in Outcomes :
       fetcher' = Settled(DataFetcher_axios(fetcher.view, axiosRequest(outcome)), outcome)
  /\ UNCHANGED <<authToken, href, sent, handled, since401, authVars, formVars,
                 memoVars, menuVars>>

\* await fetch(...) settles in UserProvider.
SettleFetch ==
  /\ fetcher.phase = "pending"
  /\ fetcher.kind = "UserProvider"
  /\ \E outcome \in Outcomes :
       fetcher' = Settled(UserProvider(fetcher.view, fetch(outcome)), outcome)
  /\ UNCHANGED <<authToken, href, sent, handled, since401, authVars, formVars,
                 memoVars, menuVars>>

ServerNext == StoreToken \/ Mount \/ SettleApiClient \/ SettleAxios \/ SettleFetch

\* The page loads with or without a stored token.
ServerSpecInit ==
  /\ AuthInit
  /\ FormInit({"types"})
  /\ MemoInit
  /\ ServerInit({NoToken} \cup {{t} : t \in Tokens})
  /\ MenuInit({SampleItem})

ServerSpec == ServerSpecInit /\ [][ServerNext]_vars

\* -------------------------------------------------------- menu item render

\* MenuItem renders: displayPrice is computed from its item.
RenderMenuItem ==
  /\ shown' = displayPrice(item)
  /\ UNCHANGED <<item, authVars, formVars, memoVars, serverVars>>

MenuNext == RenderMenuItem

\* MenuItem given any value of type ProductItem.
MenuSpecInit ==
  /\ AuthInit
  /\ FormInit({"types"})
  /\ MemoInit
  /\ ServerInit({NoToken})
  /\ MenuInit(ProductItems)

MenuSpec == MenuSpecInit /\ [][MenuNext]_vars

\* ----------------------------------------------------------------- helpers

\* The n-th most recent action (1 = the last one dispatched).
Recent(n) == log[Len(log) + 1 - n]

IsLogin(a) == a.type = "LOGIN"

IsLogout(a) == a.type = "LOGOUT"

\* The requirement the specification puts on an establish detail.
ValidDetail(d) == d.id # "" /\ d.name # ""

TypeOK ==
  /\ state \in AuthState
  /\ prev \in AuthState
  /\ Len(log) <= MaxLog
  /\ thrown \in {"none", "InvalidTransitionRequest", "UnknownTransitionKind"}
  /\ isLoggedIn \in BOOLEAN
  /\ user \in User \cup {Null}
  /\ store \in AuthState
  /\ renderedInside \in BOOLEAN
  /\ tornDown \in AuthState \cup {Null}
  /\ variant \in Variants
  /\ values \in FormSamples \cup SchemaInputs \cup {DefaultValues}
  /\ \A e \in errors : e.path \in FieldNames
  /\ submitted \subseteq {values}
  /\ formEvent \in {"none", "edit", "blur", "submit"}

\* The two states of the machine.
Phase(s) == IF s.isLoggedIn THEN "Identified" ELSE "Anonymous"

\* ------------------------------------------------------------------ claims

\* C1: in every reachable state the identity (user) is non-null exactly
\* when authenticated (isLoggedIn) is true.
C1_IdentityIffAuthenticated == (state.user # Null) <=> state.isLoggedIn

\* C1 witness: an identified session reached after both a logout and a login.
C1_Witness ==
  /\ Len(log) >= 2
  /\ IsLogout(Recent(2))
  /\ IsLogin(Recent(1))
  /\ state.isLoggedIn
  /\ state.user # Null

\* C2: after a LOGIN with payload d the state is exactly
\* {isLoggedIn: true, user: d}, whatever the state before; an identity
\* already held is replaced by d.
C2_LoginYieldsPayload ==
  (Len(log) >= 1 /\ IsLogin(Recent(1))) =>
    state = [isLoggedIn |-> TRUE, user |-> Recent(1).payload]

\* C2 witness: a LOGIN applied to a session identified as somebody else.
C2_Witness ==
  /\ Len(log) >= 1
  /\ IsLogin(Recent(1))
  /\ prev.isLoggedIn
  /\ ValidDetail(Recent(1).payload)
  /\ prev.user # Recent(1).payload
  /\ state.user = Recent(1).payload

\* C3: after a LOGOUT the state is {isLoggedIn: false, user: null} whatever
\* the state before, and a second LOGOUT in a row leaves the state as the
\* first one left it.
C3_LogoutYieldsInitial ==
  /\ (Len(log) >= 1 /\ IsLogout(Recent(1))) => state = initialState
  /\ (Len(log) >= 2 /\ IsLogout(Recent(1)) /\ IsLogout(Recent(2))) => state = prev

\* C3 witness: a LOGOUT of an identified session followed by another LOGOUT.
C3_Witness ==
  /\ Len(log) >= 3
  /\ IsLogin(Recent(3))
  /\ IsLogout(Recent(2))
  /\ IsLogout(Recent(1))
  /\ state = initialState

\* C4: LOGOUT, then LOGIN with any payload, then LOGOUT leaves the state
\* equal to initialState, from any reachable state.
C4_RoundTrip ==
  (Len(log) >= 3 /\ IsLogout(Recent(3)) /\ IsLogin(Recent(2)) /\ IsLogout(Recent(1)))
    => state = initialState

\* C4 witness: the three requests have run and the middle one identified
\* the session.
C4_Witness ==
  /\ Len(log) >= 3
  /\ IsLogout(Recent(3))
  /\ IsLogin(Recent(2))
  /\ IsLogout(Recent(1))
  /\ prev = [isLoggedIn |-> TRUE, user |-> Recent(2).payload]
  /\ state = initialState

C13_TwoStateMachine ==
  /\ [](/\ Len(log) >= 1 =>
             CASE IsLogin(Recent(1)) -> Phase(state) = "Identified"
               [] IsLogout(Recent(1)) -> Phase(state) = "Anonymous"
               [] OTHER -> state = prev
        /\ \A d \in User : ENABLED login(d)
        /\ ENABLED logout)
  /\ [][(state' # state) => (Login \/ Logout \/ Restart)]_vars

\* C13 witness: Anonymous to Identified by a valid LOGIN, then back to
\* Anonymous by LOGOUT.
C13_Witness ==
  /\ Len(log) >= 3
  /\ IsLogout(Recent(3))
  /\ IsLogin(Recent(2))
  /\ ValidDetail(Recent(2).payload)
  /\ IsLogout(Recent(1))
  /\ Phase(prev) = "Identified"
  /\ Phase(state) = "Anonymous"

\* C14: before the first login or logout since the start or the last
\* restart, the reducer state, the two useState cells and the store all
\* hold {isLoggedIn: false, user: null}.
C14_StartsAnonymous ==
  (log = <<>>) =>
    /\ state = [isLoggedIn |-> FALSE, user |-> Null]
    /\ isLoggedIn = FALSE
    /\ user = Null
    /\ store = [isLoggedIn |-> FALSE, user |-> Null]

\* C14 witness: an identified session has been torn down and the
\* application has started again.
C14_Witness ==
  /\ tornDown # Null
  /\ tornDown.isLoggedIn
  /\ log = <<>>
  /\ ~store.isLoggedIn

\* C16: after every login(d) and logout() call the useState provider, the
\* reducer provider and the store expose the same (isLoggedIn, user) pair.
C16_ContainersAgree ==
  /\ <<isLoggedIn, user>> = <<state.isLoggedIn, state.user>>
  /\ <<store.isLoggedIn, store.user>> = <<state.isLoggedIn, state.user>>

\* C16 witness: after a logout and a login the three containers hold the
\* identity that was logged in.
C16_Witness ==
  /\ Len(log) >= 2
  /\ IsLogout(Recent(2))
  /\ IsLogin(Recent(1))
  /\ user = Recent(1).payload
  /\ store.user = Recent(1).payload
  /\ state.user = Recent(1).payload

\* C17: a ProfileIcon rendered with no AuthProvider above it throws
\* "ProfileIcon must be used within an AuthProvider"; rendered below an
\* AuthProvider it does not throw, whatever the auth state.
C17_ThrowsIffNoProvider ==
  (rendered # NotRendered) =>
    /\ ~renderedInside => rendered.error = MustBeWithinProvider
    /\ renderedInside => rendered.error = ""

\* C17 witness: the render outside a provider threw while the provider's
\* session was identified.
C17_Witness ==
  /\ rendered.error = MustBeWithinProvider
  /\ ~renderedInside
  /\ state.isLoggedIn

\* The card fields of the form.
CardFields == {"cardHolderName", "cardNumber", "expiryDate", "cvv"}

\* Every card field is present and non-empty.
AllCardFieldsFilled(data) ==
  \A f \in CardFields : data[f] # Undefined /\ Len(data[f]) > 0

\* Exactly five characters, each a decimal digit.
FiveDecimalDigits(v) ==
  /\ v # Undefined
  /\ Len(v) = 5
  /\ \A i \in 1..Len(v) : v[i] \in {"0", "1", "2", "3", "4", "5", "6", "7", "8", "9"}

\* C18: only a submit attempt invokes onSubmit, and it does so exactly when
\* the current values satisfy checkoutSchema, passing those values; when
\* they do not, onSubmit is not invoked and errors is populated.
C18_SubmitOnlyWhenValid ==
  /\ (formEvent # "submit") => submitted = {}
  /\ (formEvent = "submit") =>
       /\ (checkoutSchema(variant, values) = {}) => submitted = {values}
       /\ (checkoutSchema(variant, values) # {}) => (submitted = {} /\ errors # {})

\* C18 witness: a submit attempt on a valid card-payment form has invoked
\* onSubmit with the form's values and left no error.
C18_Witness ==
  /\ formEvent = "submit"
  /\ values.paymentMethod = S_card
  /\ submitted = {values}
  /\ errors = {}

\* C19: the refinement's issue is reported exactly when paymentMethod is
\* "card" and some card field is absent or empty, never for another payment
\* method, and always at path cardHolderName.
C19_CardRefinement ==
  (formEvent = "submit") =>
    /\ (\E e \in errors : e.message = RefineMessage)
         <=> (values.paymentMethod = S_card /\ ~AllCardFieldsFilled(values))
    /\ \A e \in errors : e.message = RefineMessage => e.path = "cardHolderName"

\* C19 witness: a card payment whose holder name is filled and whose cvv is
\* absent was rejected at path cardHolderName.
C19_Witness ==
  /\ formEvent = "submit"
  /\ values.paymentMethod = S_card
  /\ values.cardHolderName = <<"x">>
  /\ values.cardNumber = <<"x">>
  /\ values.expiryDate = <<"x">>
  /\ values.cvv = Undefined
  /\ [path |-> "cardHolderName", message |-> RefineMessage] \in errors

\* C20: whichever copy of checkoutSchema validates it, a zipCode is accepted
\* if and only if it consists of exactly five decimal digits.
C20_ZipFiveDigitsInEveryCopy ==
  (formEvent = "submit") =>
    ((~\E e \in errors : e.path = "zipCode") <=> FiveDecimalDigits(values.zipCode))

\* The number of decimal digits among the characters of a string.
DigitCount(v) == Cardinality({i \in 1..Len(v) : v[i] \in ClassDigit})

\* C21: a phone value that does not contain at least 10 digits is rejected
\* with the message "Phone number must be at least 10 digits".
C21_PhoneNeedsTenDigits ==
  (formEvent = "submit" /\ DigitCount(values.phone) < 10) =>
    [path |-> "phone", message |-> "Phone number must be at least 10 digits"]
      \in errors

\* The error is a response with status 401.
Unauthorized(error) == \E r \in error.response : r.status = 401

\* C22: for every error shape the response interceptor's error handler
\* returns a promise rejected with the original error, so the component's
\* catch block runs; on 401 it removes authToken and sets the location to
\* /login, and for every other error it leaves the token as it was.
C22_ErrorHandlerRejects ==
  /\ \A h \in handled :
       /\ h.result.promise = Rejected(h.error)
       /\ Unauthorized(h.error) =>
            (h.result.authToken = NoToken /\ h.result.href = "/login")
       /\ ~Unauthorized(h.error) => h.result.authToken = h.tokenBefore
  /\ (/\ fetcher.phase = "settled"
      /\ fetcher.kind = "DataFetcher_apiClient"
      /\ \E o \in fetcher.outcome : axiosRequest(o).settled = "rejected")
       => fetcher.view.error = CouldNotRetrieve

\* C22 witness: a 401 answered a request made with a token stored; the
\* handler removed the token, redirected, and the component's catch ran.
C22_Witness ==
  /\ \E h \in handled :
       /\ Unauthorized(h.error)
       /\ h.tokenBefore = {"abc"}
       /\ h.hrefBefore = "/"
       /\ h.result.authToken = NoToken
       /\ h.result.href = "/login"
       /\ h.result.promise = Rejected(h.error)
  /\ fetcher.phase = "settled"
  /\ fetcher.kind = "DataFetcher_apiClient"
  /\ fetcher.view.error = CouldNotRetrieve
  /\ authToken = NoToken

C26_ButtonsAlternate ==
  /\ (ENABLED ClickLogin) <=> ~state.isLoggedIn
  /\ (ENABLED ClickLogout) <=> state.isLoggedIn
  /\ (ENABLED ClickStoreLogin) <=> ~store.isLoggedIn
  /\ (ENABLED ClickStoreLogout) <=> store.isLoggedIn
  /\ (Len(log) >= 2) => (Recent(1).type # Recent(2).type)
  /\ (Len(log) >= 1 /\ Len(log) < MaxLog) => IsLogin(log[1])
  /\ (Len(log) >= 1 /\ IsLogin(Recent(1))) =>
       (~prev.isLoggedIn /\ state = [isLoggedIn |-> TRUE, user |-> GuestUser])
  /\ store.isLoggedIn => store.user = GuestUser

\* C26 witness: Login, Logout and Login again have been clicked and the
\* guest is logged in, in the zustand application as well.
C26_Witness ==
  /\ Len(log) >= 3
  /\ IsLogin(Recent(3))
  /\ IsLogout(Recent(2))
  /\ IsLogin(Recent(1))
  /\ state.user = GuestUser
  /\ store = [isLoggedIn |-> TRUE, user |-> GuestUser]

\* C27: while its fetch is pending a fetching component holds its initial
\* state (loading true); once the fetch has settled loading is false; after
\* a success the data is the response's and error is null; after a failure
\* error is set and the data is the initial one; data and error are never
\* both set.
C27_FetchLifecycle ==
  /\ (fetcher.phase = "pending") => fetcher.view = initialView(fetcher.kind)
  /\ (fetcher.phase = "settled") =>
       \A o \in fetcher.outcome :
         /\ ~fetcher.view.loading
         /\ Succeeded(fetcher.kind, o) =>
              (fetcher.view.data = o.body /\ fetcher.view.error = JsonNull)
         /\ ~Succeeded(fetcher.kind, o) =>
              (/\ fetcher.view.error # JsonNull
               /\ fetcher.view.data = initialView(fetcher.kind).data)
         /\ ~(/\ fetcher.view.error # JsonNull
              /\ fetcher.view.data # initialView(fetcher.kind).data)

\* C27 witness: the DataFetcher on apiClient got a 500: its catch set the
\* error, its finally cleared loading, and posts is still empty.
C27_Witness ==
  /\ fetcher.phase = "settled"
  /\ fetcher.kind = "DataFetcher_apiClient"
  /\ \E o \in fetcher.outcome : o.failure = "none" /\ o.status = 500
  /\ fetcher.view =
       [data |-> JsonEmptyArray, loading |-> FALSE, error |-> CouldNotRetrieve]

\* C28: a request sent after the response interceptor handled a 401, and
\* before an authToken is stored again, carries no Authorization header.
C28_NoHeaderAfter401 ==
  \A r \in sent : r.after401 => r.config.headers.Authorization = {}

\* C28 witness: a token was stored when the 401 arrived, and the next
\* request went out without a header.
C28_Witness ==
  /\ \E h \in handled : Unauthorized(h.error) /\ h.tokenBefore = {"abc"}
  /\ \E r \in sent : r.after401 /\ r.config.headers.Authorization = {}
  /\ since401
  /\ fetcher.phase = "pending"

\* C29: MenuItem shows "from $" and the first element of priceRange when
\* priceRange is present, "$" and price when it is not, and computing it
\* throws for no ProductItem.
C29_PriceWithoutThrowing ==
  (shown # NotDisplayed) =>
    /\ shown.error = ""
    /\ (item.priceRange # {}) =>
         \A range \in item.priceRange :
           shown = Displayed("from $", toFixed2(range[1]))
    /\ (item.priceRange = {}) =>
         \A price \in item.price : shown = Displayed("$", toFixed2(price))

====
